---------------------------- MODULE Spec2Model ----------------------------
(***************************************************************************)
(* A model of app.py: the completion client (call_openrouter_chat), the    *)
(* fallback responder (smart_fallback), the in-memory session store and    *)
(* the chat, upload and smoke-test handlers.                               *)
(*                                                                         *)
(* A Python str is a sequence of symbols.  Every character of a text that  *)
(* varies (a message, a completion, a document) is one symbol, written as  *)
(* a one-character string; a fixed literal of the source that is only      *)
(* copied (a canned sentence, a prompt header) is carried as one symbol.   *)
(***************************************************************************)
EXTENDS Integers, Sequences, FiniteSets

VARIABLES
    api_key,        \* OPENROUTER_API_KEY (line 23), fixed at start-up
    max_prompt,     \* MAX_PROMPT_CHARS (line 31), fixed at start-up
    pypdf,          \* whether PyPDF2 was imported (lines 15-18)
    sessions,       \* the sessions dict (line 42): session id -> list of Turns
    now,            \* ticks of time.time()
    uuid_next,      \* number of uuid4() values drawn so far
    client_calls,   \* number of invocations of call_openrouter_chat so far
    accepted,       \* per session id, the chat requests accepted so far
    request,        \* the HTTP request last handled
    http,           \* what the completion endpoint answered to the last calls
    sent,           \* the message lists last passed to call_openrouter_chat
    results,        \* what call_openrouter_chat returned to the last request
    response,       \* the HTTP response last returned
    pc,             \* concurrent chat: each worker's position in chat()
    loc,            \* concurrent chat: each worker's local variables
    list_id         \* concurrent chat: which list object each session id holds

vars == <<api_key, max_prompt, pypdf, sessions, now, uuid_next, client_calls,
          accepted, request, http, sent, results, response, pc, loc, list_id>>

----------------------------------------------------------------------------
(* Python str operations *)

Min2(a, b) == IF a <= b THEN a ELSE b

UpperLetters == <<"A","B","C","D","E","F","G","H","I","J","K","L","M",
                  "N","O","P","Q","R","S","T","U","V","W","X","Y","Z">>

LowerLetters == <<"a","b","c","d","e","f","g","h","i","j","k","l","m",
                  "n","o","p","q","r","s","t","u","v","w","x","y","z">>

Digits == <<"0","1","2","3","4","5","6","7","8","9">>

\* str.isspace for one character
IsSpace(c) == c \in {" ", "\t", "\n", "\r", "\f"}

\* one character of str.lower()
LowerChar(c) ==
    IF \E i \in 1..Len(UpperLetters) : UpperLetters[i] = c
    THEN LowerLetters[CHOOSE i \in 1..Len(UpperLetters) : UpperLetters[i] = c]
    ELSE c

\* str.lower()
Lower(s) == [i \in 1..Len(s) |-> LowerChar(s[i])]

\* str.strip(): drop the leading and the trailing whitespace
Strip(s) ==
    IF \A i \in 1..Len(s) : IsSpace(s[i]) THEN <<>>
    ELSE LET lo == CHOOSE i \in 1..Len(s) :
                       ~IsSpace(s[i]) /\ \A j \in 1..(i - 1) : IsSpace(s[j])
             hi == CHOOSE i \in 1..Len(s) :
                       ~IsSpace(s[i]) /\ \A j \in (i + 1)..Len(s) : IsSpace(s[j])
         IN  SubSeq(s, lo, hi)

\* w in s, for a non-empty w
Contains(s, w) ==
    \E i \in 0..(Len(s) - Len(w)) : SubSeq(s, i + 1, i + Len(w)) = w

\* s[:n] for n >= 0
Prefix(s, n) == SubSeq(s, 1, Min2(n, Len(s)))

\* s[-n:] of a list, for n > 0
LastN(s, n) == SubSeq(s, (IF Len(s) > n THEN Len(s) - n ELSE 0) + 1, Len(s))

RECURSIVE Str(_)
\* str(n) of a natural number, as f"{n}" formats it
Str(n) == IF n < 10 THEN <<Digits[n + 1]>>
          ELSE Str(n \div 10) \o <<Digits[(n % 10) + 1]>>

----------------------------------------------------------------------------
(* JSON values as Python sees them *)

JAbsent == [t |-> "absent", s |-> <<>>, n |-> 0]
JNull   == [t |-> "null", s |-> <<>>, n |-> 0]
JStr(x) == [t |-> "str", s |-> x, n |-> 0]
JNum(k) == [t |-> "num", s |-> <<>>, n |-> k]

\* dict.get(key): an absent key reads as None
Get(v) == IF v.t = "absent" THEN JNull ELSE v

\* bool(v)
Truthy(v) == (v.t = "str" /\ v.s # <<>>) \/ (v.t = "num" /\ v.n # 0)

\* a or b
Or(a, b) == IF Truthy(a) THEN a ELSE b

----------------------------------------------------------------------------
(* The completion client, lines 85-133 *)

\* What requests.post and resp.json() give: kind "raise" is a transport or
\* parsing fault, kind "resp" a response with a status code and, on 200, the
\* decoded body.  The body says which of the places the client looks at are
\* there: choices is "absent", "nonlist", "empty" or "list"; c0dict says
\* whether choices[0] is a dict; msg is "absent", "nondict" or "dict";
\* content, c0text, text and gen are the values at message.content,
\* choices[0].text, text and generated_text (JAbsent: no such key).
NoBody == [isdict |-> FALSE, choices |-> "absent", c0dict |-> FALSE,
           msg |-> "absent", content |-> JAbsent, c0text |-> JAbsent,
           text |-> JAbsent, gen |-> JAbsent]

HttpRaise == [kind |-> "raise", status |-> 0, data |-> NoBody]

HttpStatus(code) == [kind |-> "resp", status |-> code, data |-> NoBody]

HttpOk(body) == [kind |-> "resp", status |-> 200, data |-> body]

\* A body in the OpenAI style: choices[0].message.content alone
ContentBody(c) ==
    [isdict |-> TRUE, choices |-> "list", c0dict |-> TRUE, msg |-> "dict",
     content |-> c, c0text |-> JAbsent, text |-> JAbsent, gen |-> JAbsent]

\* The result pair (content_str_or_None, status_tag)
ResNone(tag) == [none |-> TRUE, text |-> <<>>, tag |-> tag]

ResText(text) == [none |-> FALSE, text |-> text, tag |-> <<"ai">>]

\* bool(text) of a result's first component
HasText(r) == ~r.none /\ r.text # <<>>

\* Lines 119-124: the value taken from choices[0]
FromChoice0(d) ==
    IF d.msg = "dict" /\ d.content.t # "absent" THEN d.content
    ELSE IF d.c0text.t # "absent" THEN d.c0text
    ELSE JNull

\* Lines 115-127: the extracted content of a dict body whose choices[0],
\* if any, is a dict
Extract(d) ==
    LET c == IF d.choices = "list" THEN FromChoice0(d) ELSE JNull
    IN  IF ~Truthy(c) THEN Or(Get(d.text), Get(d.gen)) ELSE c

\* Lines 128-130
Finish(content) ==
    IF Truthy(content)
    THEN IF content.t = "str" THEN ResText(Strip(content.s))
         ELSE ResNone(<<"exception">>)       \* .strip() of a non-str raises
    ELSE ResNone(<<"no_content">>)

call_openrouter_chat(key, h) ==
    IF key = "" THEN ResNone(<<"missing_api_key">>)
    ELSE IF h.kind = "raise" THEN ResNone(<<"exception">>)
    ELSE IF h.status # 200 THEN ResNone(<<"api_error_">> \o Str(h.status))
    ELSE IF ~h.data.isdict THEN ResNone(<<"no_content">>)
    ELSE IF h.data.choices = "list" /\ ~h.data.c0dict
         THEN ResNone(<<"exception">>)       \* c0.get of a non-dict raises
    ELSE Finish(Extract(h.data))

----------------------------------------------------------------------------
(* The fallback responder, lines 138-146 *)

LEAVE_WORDS == << <<"l","e","a","v","e">>,
                  <<"v","a","c","a","t","i","o","n">>,
                  <<"t","i","m","e"," ","o","f","f">>,
                  <<"h","o","l","i","d","a","y">> >>

PASSWORD_WORDS == << <<"p","a","s","s","w","o","r","d">>,
                     <<"r","e","s","e","t">>,
                     <<"l","o","g","i","n">>,
                     <<"a","c","c","o","u","n","t">> >>

SOFTWARE_WORDS == << <<"s","o","f","t","w","a","r","e">>,
                     <<"i","n","s","t","a","l","l">>,
                     <<"p","r","o","g","r","a","m">>,
                     <<"a","p","p","l","i","c","a","t","i","o","n">> >>

LEAVE_REPLY == <<"Employees typically receive 20 vacation days per year. Please submit leave requests through the HR portal at least two weeks in advance.">>

PASSWORD_REPLY == <<"To reset your password, go to portal.company.com and click 'Forgot Password'. If that doesn't work, reach out to IT at x4357.">>

SOFTWARE_REPLY == <<"Submit a software request through the IT Service Catalog with manager approval; typical installs complete within 24 hours.">>

CatchAll(message) ==
    <<"I understand you're asking about '">> \o message
    \o <<"'. I can help with HR, IT, events, and document summaries - could you give a bit more detail?">>

\* any(word in m for word in words)
AnyIn(words, m) == \E i \in 1..Len(words) : Contains(m, words[i])

\* Mutant of smart_fallback: the keywords are sought in the message as typed
smart_fallback_case_sensitive(message) ==
    IF AnyIn(LEAVE_WORDS, message) THEN LEAVE_REPLY
    ELSE IF AnyIn(PASSWORD_WORDS, message) THEN PASSWORD_REPLY
    ELSE IF AnyIn(SOFTWARE_WORDS, message) THEN SOFTWARE_REPLY
    ELSE CatchAll(message)

smart_fallback(message) ==
    LET m == Lower(message)
    IN  IF AnyIn(LEAVE_WORDS, m) THEN LEAVE_REPLY
        ELSE IF AnyIn(PASSWORD_WORDS, m) THEN PASSWORD_REPLY
        ELSE IF AnyIn(SOFTWARE_WORDS, m) THEN SOFTWARE_REPLY
        ELSE CatchAll(message)

----------------------------------------------------------------------------
(* The session store and the chat handler, lines 42 and 155-206 *)

SYSTEM_PROMPT == <<"You are an experienced, friendly, and creative enterprise assistant. ...">>

\* Line 171: the context is the last 6 stored messages
CONTEXT_TURNS == 6

Turn(role, text, ts) == [role |-> role, text |-> text, ts |-> ts]

Msg(role, content) == [role |-> role, content |-> content]

\* str(uuid.uuid4()): the k-th value drawn, each one new
UuidStr(k) == <<"uuid-">> \o Str(k)

\* Mutant of EnsureSession: the list is assigned without the membership test
EnsureSessionUnconditional(S, sid) ==
    [k \in DOMAIN S \cup {sid} |-> IF k = sid THEN <<>> ELSE S[k]]

\* Lines 164-165: if session_id not in sessions: sessions[session_id] = []
EnsureSession(S, sid) ==
    [k \in DOMAIN S \cup {sid} |-> IF k \in DOMAIN S THEN S[k] ELSE <<>>]

\* sessions[session_id].append(turn)
AppendTurn(S, sid, turn) == [S EXCEPT ![sid] = Append(@, turn)]

\* Lines 173-179: a stored Turn as the model's role and content
MapTurn(m) ==
    IF m.role = "assistant" THEN Msg("assistant", m.text)
    ELSE Msg("user", m.text)

\* Mutant of BuildMessages: the current message is not added once more
BuildMessagesNoRepeat(history, message) ==
    LET context_msgs == LastN(history, CONTEXT_TURNS)
    IN  <<Msg("system", SYSTEM_PROMPT)>>
        \o [i \in 1..Len(context_msgs) |-> MapTurn(context_msgs[i])]

\* Lines 171-182: the list of messages built from the stored history
BuildMessages(history, message) ==
    LET context_msgs == LastN(history, CONTEXT_TURNS)
    IN  <<Msg("system", SYSTEM_PROMPT)>>
        \o [i \in 1..Len(context_msgs) |-> MapTurn(context_msgs[i])]
        \o <<Msg("user", message)>>

\* Mutant of Reply: the test is "ai_text is None", not "not ai_text"
ReplyNoneOnly(r, message) ==
    IF r.none
    THEN [text |-> smart_fallback(message), source |-> "fallback",
          confidence |-> "0.45"]
    ELSE [text |-> r.text, source |-> "ai", confidence |-> "0.9"]

\* Lines 186-192: the reply chosen from the client's result
Reply(r, message) ==
    IF ~HasText(r)
    THEN [text |-> smart_fallback(message), source |-> "fallback",
          confidence |-> "0.45"]
    ELSE [text |-> r.text, source |-> "ai", confidence |-> "0.9"]

\* Line 161
ChatEmpty == [status |-> 400, success |-> FALSE, error |-> <<"Empty message">>]

\* Lines 204-206
ChatFault == [status |-> 500, success |-> FALSE, error |-> <<"str(e)">>]

\* Lines 197-203
ChatOk(reply, session_id) ==
    [status |-> 200, success |-> TRUE, response |-> reply.text,
     source |-> reply.source, confidence |-> reply.confidence,
     session_id |-> session_id]

\* Line 159: data.get("message") or ""
RawMessage(m) == Or(Get(m), JStr(<<>>))

\* Mutant of IsEmptyMessage: the message is tested before it is stripped
IsEmptyMessageUnstripped(raw) == raw = <<>>

\* Lines 159-160: not message, for message = raw.strip()
IsEmptyMessage(raw) == Strip(raw) = <<>>

\* Line 163: data.get("session_id") or str(uuid.uuid4())
SessionId(sid, drawn) == IF Truthy(Get(sid)) THEN sid.s ELSE UuidStr(drawn + 1)

\* The network answers of one request: none is asked for without a key
Asked(hs) == IF api_key = "" THEN <<>> ELSE hs

\* Answers of the completion endpoint to a chat call
ChatOutcomes ==
    { HttpRaise, HttpStatus(500),
      HttpOk(ContentBody(JStr(<<" ","o","k"," ">>))),
      HttpOk(ContentBody(JStr(<<" ">>))),
      HttpOk(ContentBody(JNull)) }

\* Lines 163-203: an accepted message, from the session lookup to the reply
ChatAccept(message, sid, h) ==
    LET session_id == SessionId(sid, uuid_next)
        S1 == AppendTurn(EnsureSession(sessions, session_id),
                         session_id, Turn("user", message, now + 1))
        messages == BuildMessages(S1[session_id], message)
        result == call_openrouter_chat(api_key, h)
        reply == Reply(result, message)
    IN  /\ uuid_next' = IF Truthy(Get(sid)) THEN uuid_next ELSE uuid_next + 1
        /\ sent' = <<messages>>
        /\ http' = Asked(<<h>>)
        /\ results' = <<result>>
        /\ client_calls' = client_calls + 1
        /\ accepted' = [k \in DOMAIN S1 |->
                           IF k = session_id
                           THEN (IF k \in DOMAIN accepted THEN accepted[k] ELSE 0) + 1
                           ELSE accepted[k]]
        /\ sessions' = AppendTurn(S1, session_id,
                                  Turn("assistant", reply.text, now + 2))
        /\ now' = now + 2
        /\ response' = ChatOk(reply, session_id)

\* chat(), one request handled from start to end
ChatHandle(m, sid) ==
    LET raw == RawMessage(m)
    IN  /\ request' = [route |-> "chat", message |-> m, session_id |-> sid]
        /\ IF raw.t # "str"
           THEN \* .strip() of a non-str raises: line 204
                /\ response' = ChatFault
                /\ http' = <<>>
                /\ sent' = <<>>
                /\ results' = <<>>
                /\ UNCHANGED <<sessions, now, uuid_next, client_calls, accepted>>
           ELSE IF IsEmptyMessage(raw.s)
           THEN /\ response' = ChatEmpty
                /\ http' = <<>>
                /\ sent' = <<>>
                /\ results' = <<>>
                /\ UNCHANGED <<sessions, now, uuid_next, client_calls, accepted>>
           ELSE \E h \in ChatOutcomes : ChatAccept(Strip(raw.s), sid, h)

\* Bounds of the sequential chat model: chat requests accepted in all, and
\* session ids the server generates
MaxCalls == 4

MaxUuids == 1

\* Message fields a chat request may carry
ChatMessages ==
    { JAbsent, JStr(<<>>), JStr(<<" ", "\t">>), JNum(5),
      JStr(<<" ","h","i","\n">>), JStr(<<"R","e","s","e","t">>) }

\* session_id fields a chat request may carry: none, or a client's own
ChatSessionIds ==
    { JStr(<<"s1">>) } \cup (IF uuid_next < MaxUuids THEN {JAbsent} ELSE {})

Chat ==
    /\ client_calls < MaxCalls
    /\ \E m \in ChatMessages, sid \in ChatSessionIds : ChatHandle(m, sid)
    /\ UNCHANGED <<api_key, max_prompt, pypdf, pc, loc, list_id>>

\* MAX_PROMPT_CHARS as shipped (line 31)
DEFAULT_MAX_PROMPT == 16000

\* The state after start-up, for the given settings of the environment
InitWith(keys, ceilings, pdf) ==
    /\ api_key \in keys
    /\ max_prompt \in ceilings
    /\ pypdf \in pdf
    /\ sessions = <<>>
    /\ now = 0
    /\ uuid_next = 0
    /\ client_calls = 0
    /\ accepted = <<>>
    /\ request = [route |-> "none"]
    /\ http = <<>>
    /\ sent = <<>>
    /\ results = <<>>
    /\ response = [status |-> 0]
    /\ pc = <<>>
    /\ loc = <<>>
    /\ list_id = <<>>

Init == InitWith({"", "sk-key"}, {DEFAULT_MAX_PROMPT}, {TRUE})

Next == Chat

Spec == Init /\ [][Next]_vars

----------------------------------------------------------------------------
(* The smoke test, lines 309-318, over the answers of the endpoint *)

\* Values the endpoint may put at choices[0].message.content
ContentValues ==
    { JAbsent, JNull, JStr(<<>>), JStr(<<" ">>), JStr(<<"c">>),
      JStr(<<" ", "c", "\n">>), JNum(7) }

\* Values it may put at choices[0].text, text and generated_text
Choice0TextValues == { JAbsent, JNull, JStr(<<>>), JStr(<<"t">>), JStr(<<"\t", "t">>) }

TopTextValues == { JAbsent, JNull, JStr(<<>>), JStr(<<"x">>), JStr(<<"x", " ">>) }

GeneratedTextValues == { JAbsent, JStr(<<>>), JStr(<<" ">>), JStr(<<"g">>) }

\* The decoded 200 bodies: not a dict; a dict without a usable choices
\* list; a choices list whose first element is not a dict; a first element
\* without a message dict; a message dict
Bodies ==
    { NoBody }
    \cup { [NoBody EXCEPT !.isdict = TRUE, !.choices = c, !.text = x, !.gen = g] :
             c \in {"absent", "nonlist", "empty"},
             x \in TopTextValues, g \in GeneratedTextValues }
    \cup { [NoBody EXCEPT !.isdict = TRUE, !.choices = "list", !.text = x] :
             x \in TopTextValues }
    \cup { [NoBody EXCEPT !.isdict = TRUE, !.choices = "list", !.c0dict = TRUE,
                          !.msg = m, !.c0text = t, !.text = x, !.gen = g] :
             m \in {"absent", "nondict"}, t \in Choice0TextValues,
             x \in TopTextValues, g \in GeneratedTextValues }
    \cup { [NoBody EXCEPT !.isdict = TRUE, !.choices = "list", !.c0dict = TRUE,
                          !.msg = "dict", !.content = c, !.c0text = t,
                          !.text = x, !.gen = g] :
             c \in ContentValues, t \in Choice0TextValues,
             x \in TopTextValues, g \in GeneratedTextValues }

\* Everything requests.post and resp.json() may give
ClientOutcomes ==
    { HttpRaise, HttpStatus(401), HttpStatus(500) }
    \cup { HttpOk(b) : b \in Bodies }

TEST_PROMPT == <<"Introduce yourself in a warm, friendly, improvised paragraph (2-4 sentences).">>

\* Line 318
TestBody(r) ==
    [status |-> 200, success |-> HasText(r),
     response |-> IF r.none THEN JNull ELSE JStr(r.text), tag |-> r.tag]

\* test(): the endpoint's answer to its one call is h
Test ==
    /\ request.route = "none"
    /\ \E h \in ClientOutcomes :
        LET r == call_openrouter_chat(api_key, h)
        IN  /\ request' = [route |-> "test"]
            /\ sent' = << <<Msg("system", SYSTEM_PROMPT), Msg("user", TEST_PROMPT)>> >>
            /\ http' = Asked(<<h>>)
            /\ results' = <<r>>
            /\ client_calls' = client_calls + 1
            /\ response' = TestBody(r)
    /\ UNCHANGED <<api_key, max_prompt, pypdf, sessions, now, uuid_next,
                   accepted, pc, loc, list_id>>

NextClient == Test

SpecClient == Init /\ [][NextClient]_vars

----------------------------------------------------------------------------
(* The fallback responder over a set of messages *)

\* Pieces of text the messages are put together from
Fragments ==
    { <<"l","e","a","v","e">>, <<"H","o","l","i","d","a","y">>,
      <<"t","i","m","e">>, <<"o","f","f">>, <<" ">>,
      <<"P","a","s","s","W","O","R","D">>, <<"r","e","s","e","t">>,
      <<"l","o","g">>, <<"i","n">>,
      <<"S","o","f","t","w","a","r","e">>, <<"s","t","a","l","l">>,
      <<"x","'">> }

\* Bound: the number of pieces in a message
MaxFrags == 3

RECURSIVE Concats(_)
Concats(n) ==
    IF n = 0 THEN { <<>> }
    ELSE LET shorter == Concats(n - 1)
         IN  shorter \cup { p \o f : p \in shorter, f \in Fragments }

FallbackMessages == Concats(MaxFrags)

\* smart_fallback(message) called on its own
Fallback ==
    /\ request.route = "none"
    /\ \E m \in FallbackMessages :
           /\ request' = [route |-> "fallback", message |-> m]
           /\ response' = [status |-> 0, reply |-> smart_fallback(m)]
    /\ UNCHANGED <<api_key, max_prompt, pypdf, sessions, now, uuid_next,
                   client_calls, accepted, http, sent, results, pc, loc,
                   list_id>>

NextFallback == Fallback

SpecFallback == Init /\ [][NextFallback]_vars

----------------------------------------------------------------------------
(* The upload handler, lines 47-48 and 208-307 *)

ALLOWED_EXT == { <<"p","d","f">>, <<"t","x","t">> }

\* Line 274: the excerpt of the keyword prompt
KW_EXCERPT_CHARS == 3000

\* Line 284: the cap of the keywords list
MAX_KEYWORDS == 8

HasDot(filename) == \E i \in 1..Len(filename) : filename[i] = "."

\* filename.rsplit(".", 1)[1] of a filename with a dot
Ext(filename) ==
    LET last == CHOOSE i \in 1..Len(filename) :
                    /\ filename[i] = "."
                    /\ \A j \in (i + 1)..Len(filename) : filename[j] # "."
    IN  SubSeq(filename, last + 1, Len(filename))

\* Lines 47-48
allowed_file(filename) == HasDot(filename) /\ Lower(Ext(filename)) \in ALLOWED_EXT

\* The characters that the pattern \w matches
WordChars ==
    { LowerLetters[i] : i \in 1..Len(LowerLetters) }
    \cup { UpperLetters[i] : i \in 1..Len(UpperLetters) }
    \cup { Digits[i] : i \in 1..Len(Digits) }
    \cup { "_" }

IsWordChar(c) == c \in WordChars

\* Line 235: len(re.findall(r"\w+", text)), the maximal runs of word characters
WordCount(text) ==
    Cardinality({ i \in 1..Len(text) :
                    /\ IsWordChar(text[i])
                    /\ (i = 1 \/ ~IsWordChar(text[i - 1])) })

TruncNote(char_count) ==
    <<"\n\n[Document truncated; original length ">> \o Str(char_count)
    \o <<" characters. Summarize the provided portion and mention it's truncated.]\n">>

\* Mutant of Truncate: the ceiling itself already counts as too long
TruncateAtCeiling(text, ceiling) ==
    IF Len(text) >= ceiling
    THEN [truncated |-> TRUE, text_to_send |-> Prefix(text, ceiling),
          trunc_note |-> TruncNote(Len(text))]
    ELSE [truncated |-> FALSE, text_to_send |-> text, trunc_note |-> <<>>]

\* Lines 237-244
Truncate(text, ceiling) ==
    IF Len(text) > ceiling
    THEN [truncated |-> TRUE, text_to_send |-> Prefix(text, ceiling),
          trunc_note |-> TruncNote(Len(text))]
    ELSE [truncated |-> FALSE, text_to_send |-> text, trunc_note |-> <<>>]

SUMMARY_HEADER == <<"Summarize the document below. Provide:\n1) A concise title (<=5 words)\n2) 3-6 bullet points with key facts/insights\n3) One short suggested action (1 sentence)\n\nDo not invent facts. If you had to note uncertainty, say so briefly.\n\nDocument:\n\n">>

\* Lines 247-259
SummaryMessages(t) ==
    << Msg("system", SYSTEM_PROMPT \o <<" When summarizing, follow the requested structure exactly.">>),
       Msg("user", SUMMARY_HEADER \o t.text_to_send \o t.trunc_note) >>

KW_HEADER == <<"From the document excerpt above, list up to 8 concise keywords or tags, separated by commas.\n\nExcerpt:\n">>

\* Lines 269-275
KeywordMessages(t) ==
    << Msg("system", <<"You are a helpful tag extractor.">>),
       Msg("user", KW_HEADER \o Prefix(t.text_to_send, KW_EXCERPT_CHARS)) >>

\* Lines 262-266
Summary(r) ==
    IF ~HasText(r)
    THEN [text |-> <<"Automatic summary unavailable. Please try again later or upload a shorter file.">>,
          source |-> "fallback"]
    ELSE [text |-> r.text, source |-> "ai"]

\* A character of the pattern [,\n;]
IsSep(c) == c \in {",", "\n", ";"}

RECURSIVE SplitFrom(_, _, _, _)
\* re.split(r"[,\n;]+", s) from position i on: cur is the piece being read,
\* in_run says that position i - 1 is within a run of separators
SplitFrom(s, i, cur, in_run) ==
    IF i > Len(s) THEN <<cur>>
    ELSE IF IsSep(s[i])
         THEN IF in_run THEN SplitFrom(s, i + 1, cur, TRUE)
              ELSE <<cur>> \o SplitFrom(s, i + 1, <<>>, TRUE)
         ELSE SplitFrom(s, i + 1, Append(cur, s[i]), FALSE)

\* Line 279
Split(s) == SplitFrom(s, 1, <<>>, FALSE)

InList(x, list) == \E i \in 1..Len(list) : list[i] = x

RECURSIVE CollectUncapped(_, _, _)
\* Mutant of Collect: the loop has no break
CollectUncapped(candidates, i, keywords) ==
    IF i > Len(candidates) THEN keywords
    ELSE LET clean == Lower(Strip(candidates[i]))
         IN  CollectUncapped(candidates, i + 1,
                 IF clean # <<>> /\ ~InList(clean, keywords)
                 THEN Append(keywords, clean) ELSE keywords)

RECURSIVE Collect(_, _, _)
\* Lines 280-285: the loop over the candidates, from the i-th on
Collect(candidates, i, keywords) ==
    IF i > Len(candidates) THEN keywords
    ELSE LET clean == Lower(Strip(candidates[i]))
             added == IF clean # <<>> /\ ~InList(clean, keywords)
                      THEN Append(keywords, clean) ELSE keywords
         IN  IF Len(added) >= MAX_KEYWORDS THEN added
             ELSE Collect(candidates, i + 1, added)

\* Lines 277-285
Keywords(r) == IF HasText(r) THEN Collect(Split(r.text), 1, <<>>) ELSE <<>>

UploadError(status, error) == [status |-> status, success |-> FALSE, error |-> error]

\* Lines 295-304
UploadOk(file, t, summary, keywords) ==
    [status |-> 200, success |-> TRUE, filename |-> file.filename,
     summary |-> summary.text, keywords |-> keywords,
     word_count |-> WordCount(file.text), char_count |-> Len(file.text),
     truncated |-> t.truncated, source |-> summary.source]

\* Lines 233-304: a file whose text was extracted, the endpoint answering
\* hs to the summary call and hk to the keyword call
UploadText(file, hs, hk) ==
    LET t == Truncate(file.text, max_prompt)
        rs == call_openrouter_chat(api_key, hs)
        rk == call_openrouter_chat(api_key, hk)
    IN  /\ sent' = <<SummaryMessages(t), KeywordMessages(t)>>
        /\ http' = Asked(<<hs, hk>>)
        /\ results' = <<rs, rk>>
        /\ client_calls' = client_calls + 2
        /\ response' = UploadOk(file, t, Summary(rs), Keywords(rk))

\* upload(), one request handled from start to end.  A file part is its
\* filename (one that secure_filename keeps as it is) and the text that the
\* extractor of its type gets from its bytes.
UploadHandle(file, summaryOutcomes, keywordOutcomes) ==
    /\ request' = [route |-> "upload", file |-> file]
    /\ IF ~file.present \/ file.filename = <<>> \/ ~allowed_file(file.filename)
          \/ (Lower(Ext(file.filename)) = <<"p","d","f">> /\ ~pypdf)
          \/ Strip(file.text) = <<>>
       THEN /\ response' =
                   IF ~file.present THEN UploadError(400, <<"No file part">>)
                   ELSE IF file.filename = <<>>
                        THEN UploadError(400, <<"No selected file">>)
                   ELSE IF ~allowed_file(file.filename)
                        THEN UploadError(400, <<"Unsupported file type">>)
                   ELSE IF Lower(Ext(file.filename)) = <<"p","d","f">> /\ ~pypdf
                        THEN UploadError(500, <<"PDF support missing (install PyPDF2).">>)
                   ELSE UploadError(400, <<"Could not extract text from file.">>)
            /\ sent' = <<>>
            /\ http' = <<>>
            /\ results' = <<>>
            /\ UNCHANGED client_calls
       ELSE \E hs \in summaryOutcomes, hk \in keywordOutcomes :
                UploadText(file, hs, hk)

\* Bound: how far past the excerpt length the documents and ceilings go
MaxOver == 2

DocChars == <<"d", "o", "c", " ", "1", "2", "\n">>

\* A document of n characters
Doc(n) == [i \in 1..n |-> DocChars[((i - 1) % Len(DocChars)) + 1]]

HelloWorld == <<"h","e","l","l","o"," ","w","o","r","l","d">>

\* Extracted texts: none, blank, short, and around the excerpt length
DocTexts ==
    { <<>>, <<" ", "\n">>, HelloWorld }
    \cup { Doc(KW_EXCERPT_CHARS + d) : d \in (-1)..MaxOver }

\* Settings of MAX_PROMPT_CHARS
Ceilings ==
    { 0, 5, DEFAULT_MAX_PROMPT }
    \cup { KW_EXCERPT_CHARS + d : d \in (-1)..(MaxOver - 1) }

NotesTxt == <<"n","o","t","e","s",".","t","x","t">>

FilePart(filename, text) == [present |-> TRUE, filename |-> filename, text |-> text]

NoFilePart == [present |-> FALSE, filename |-> <<>>, text |-> <<>>]

\* File parts of an upload request
DocFiles ==
    { NoFilePart, FilePart(<<>>, HelloWorld),
      FilePart(<<"t","o","o","l",".","e","x","e">>, HelloWorld),
      FilePart(<<"R","E","A","D","M","E">>, HelloWorld) }
    \cup { FilePart(f, t) :
             f \in { NotesTxt, <<"a",".","b",".","P","D","F">> },
             t \in DocTexts }

SpecExample == <<"A","l","p","h","a",","," ","B","e","t","a",";"," ",
                 "G","a","m","m","a","\n","A","l","p","h","a">>

TextOutcome(t) == HttpOk(ContentBody(JStr(t)))

\* Upload(): the first request after start-up is an upload
Upload ==
    /\ request.route = "none"
    /\ \E file \in DocFiles :
           UploadHandle(file,
               { HttpStatus(500), TextOutcome(<<"T","i","t","l","e">>),
                 TextOutcome(<<" ">>) },
               { HttpRaise, TextOutcome(SpecExample) })
    /\ UNCHANGED <<api_key, max_prompt, pypdf, sessions, now, uuid_next,
                   accepted, pc, loc, list_id>>

InitUpload == InitWith({"sk-key"}, Ceilings, BOOLEAN)

NextUpload == Upload

SpecUpload == InitUpload /\ [][NextUpload]_vars

\* Pieces of text the keyword completions are put together from
KwFragments ==
    { SpecExample,
      <<"a",",","b",";","c","\n","d",",","e">>,
      <<",","F"," ",","," ","g",";",";","h","\n","i",",","J",";">>,
      <<" ","A"," ",",","B","\n",",","\t"," ","c">>,
      <<";">>,
      <<"k"," ","l">>,
      <<"Z","\n","z",","," ","Z"," ">> }

\* Bound: the number of pieces in a keyword completion
MaxKwFrags == 2

RECURSIVE KwConcats(_)
KwConcats(n) ==
    IF n = 0 THEN { <<>> }
    ELSE LET shorter == KwConcats(n - 1)
         IN  shorter \cup { p \o f : p \in shorter, f \in KwFragments }

\* The first request after start-up is an upload of a short text file; the
\* keyword call is answered with any of the completions
UploadKeywords ==
    /\ request.route = "none"
    /\ UploadHandle(FilePart(NotesTxt, HelloWorld),
           { HttpStatus(500), TextOutcome(<<"T","i","t","l","e">>) },
           { HttpRaise } \cup { TextOutcome(t) : t \in KwConcats(MaxKwFrags) })
    /\ UNCHANGED <<api_key, max_prompt, pypdf, sessions, now, uuid_next,
                   accepted, pc, loc, list_id>>

NextKeywords == UploadKeywords

SpecKeywords == Init /\ [][NextKeywords]_vars

----------------------------------------------------------------------------
(* chat(), lines 156-203, run by several workers at once on one session id.
   Nothing locks the sessions dict: a worker may be preempted between the
   membership test of line 164 and the assignment of line 165, and between
   the lookup sessions[session_id] of lines 168 and 195 and the call of
   append on the list object it got. *)

\* Bound: the number of chat requests in flight
NumWorkers == 2

Workers == 1..NumWorkers

SharedSession == <<"s1">>

\* The messages of the requests, all accepted
WorkerMessages == { JStr(<<" ","h","i","\n">>), JStr(<<"R","e","s","e","t">>) }

\* The list object created before the workers start
OlderList == 0

Idle == [message |-> <<>>, session_id |-> <<>>, absent |-> FALSE, ref |-> OlderList,
         messages |-> <<>>, reply |-> [text |-> <<>>, source |-> "", confidence |-> ""]]

\* The store at the start: empty, or holding the session after one request
\* handled alone
StoresBefore ==
    { <<>>,
      [k \in {SharedSession} |->
          << Turn("user", <<"h","i">>, 1), Turn("assistant", <<"o","k">>, 2) >>] }

InitConcurrent ==
    /\ api_key = "sk-key"
    /\ max_prompt = DEFAULT_MAX_PROMPT
    /\ pypdf = TRUE
    /\ sessions \in StoresBefore
    /\ now = IF sessions = <<>> THEN 0 ELSE 2
    /\ uuid_next = 0
    /\ client_calls = IF sessions = <<>> THEN 0 ELSE 1
    /\ accepted = [k \in DOMAIN sessions |-> 1]
    /\ request = [route |-> "none"]
    /\ http = <<>>
    /\ sent = <<>>
    /\ results = <<>>
    /\ response = [status |-> 0]
    /\ pc = [w \in Workers |-> "idle"]
    /\ loc = [w \in Workers |-> Idle]
    /\ list_id = [k \in DOMAIN sessions |-> OlderList]

Goto(w, label) == pc' = [pc EXCEPT ![w] = label]

\* Lines 158-163: a request with a non-empty message for the shared session
Arrive(w) ==
    /\ pc[w] = "idle"
    /\ \E m \in WorkerMessages :
           /\ ~IsEmptyMessage(RawMessage(m).s)
           /\ loc' = [loc EXCEPT ![w].message = Strip(RawMessage(m).s),
                                 ![w].session_id =
                                     SessionId(JStr(SharedSession), uuid_next)]
    /\ accepted' = [k \in DOMAIN accepted \cup {SharedSession} |->
                       (IF k \in DOMAIN accepted THEN accepted[k] ELSE 0)
                       + (IF k = SharedSession THEN 1 ELSE 0)]
    /\ Goto(w, "check")
    /\ UNCHANGED <<api_key, max_prompt, pypdf, sessions, now, uuid_next,
                   client_calls, request, http, sent, results, response, list_id>>

\* Line 164: session_id not in sessions
CheckSession(w) ==
    /\ pc[w] = "check"
    /\ loc' = [loc EXCEPT ![w].absent = loc[w].session_id \notin DOMAIN sessions]
    /\ Goto(w, IF loc[w].session_id \notin DOMAIN sessions
               THEN "create" ELSE "user_ref")
    /\ UNCHANGED <<api_key, max_prompt, pypdf, sessions, now, uuid_next,
                   client_calls, accepted, request, http, sent, results,
                   response, list_id>>

\* Line 165: sessions[session_id] = [], a new list object
CreateSession(w) ==
    /\ pc[w] = "create"
    /\ sessions' = [k \in DOMAIN sessions \cup {loc[w].session_id} |->
                       IF k = loc[w].session_id THEN <<>> ELSE sessions[k]]
    /\ list_id' = [k \in DOMAIN list_id \cup {loc[w].session_id} |->
                       IF k = loc[w].session_id THEN w ELSE list_id[k]]
    /\ Goto(w, "user_ref")
    /\ UNCHANGED <<api_key, max_prompt, pypdf, now, uuid_next, client_calls,
                   accepted, request, http, sent, results, response, loc>>

\* Lines 168 and 195: sessions[session_id], the list object to append to
LookUp(w) ==
    /\ pc[w] \in {"user_ref", "assistant_ref"}
    /\ loc' = [loc EXCEPT ![w].ref = list_id[loc[w].session_id]]
    /\ Goto(w, IF pc[w] = "user_ref" THEN "user_append" ELSE "assistant_append")
    /\ UNCHANGED <<api_key, max_prompt, pypdf, sessions, now, uuid_next,
                   client_calls, accepted, request, http, sent, results,
                   response, list_id>>

\* list.append(turn) on the list object looked up: a list that the dict no
\* longer holds takes the Turn with it
AppendTo(w, turn) ==
    sessions' = IF loc[w].ref = list_id[loc[w].session_id]
                THEN AppendTurn(sessions, loc[w].session_id, turn)
                ELSE sessions

\* Line 168: .append of the user Turn
AppendUser(w) ==
    /\ pc[w] = "user_append"
    /\ AppendTo(w, Turn("user", loc[w].message, now + 1))
    /\ now' = now + 1
    /\ Goto(w, "build")
    /\ UNCHANGED <<api_key, max_prompt, pypdf, uuid_next, client_calls,
                   accepted, request, http, sent, results, response, loc,
                   list_id>>

\* Lines 171-182
BuildContext(w) ==
    /\ pc[w] = "build"
    /\ loc' = [loc EXCEPT ![w].messages =
                  BuildMessages(sessions[loc[w].session_id], loc[w].message)]
    /\ Goto(w, "call")
    /\ UNCHANGED <<api_key, max_prompt, pypdf, sessions, now, uuid_next,
                   client_calls, accepted, request, http, sent, results,
                   response, list_id>>

\* Lines 185-192
CallClient(w) ==
    /\ pc[w] = "call"
    /\ \E h \in { HttpStatus(500), HttpOk(ContentBody(JStr(<<"o","k">>))) } :
           loc' = [loc EXCEPT ![w].reply =
                      Reply(call_openrouter_chat(api_key, h), loc[w].message)]
    /\ client_calls' = client_calls + 1
    /\ Goto(w, "assistant_ref")
    /\ UNCHANGED <<api_key, max_prompt, pypdf, sessions, now, uuid_next,
                   accepted, request, http, sent, results, response, list_id>>

\* Line 195: .append of the assistant Turn
AppendAssistant(w) ==
    /\ pc[w] = "assistant_append"
    /\ AppendTo(w, Turn("assistant", loc[w].reply.text, now + 1))
    /\ now' = now + 1
    /\ Goto(w, "respond")
    /\ UNCHANGED <<api_key, max_prompt, pypdf, uuid_next, client_calls,
                   accepted, request, http, sent, results, response, loc,
                   list_id>>

\* Lines 197-203
Respond(w) ==
    /\ pc[w] = "respond"
    /\ request' = [route |-> "chat", message |-> JStr(loc[w].message),
                   session_id |-> JStr(loc[w].session_id)]
    /\ response' = ChatOk(loc[w].reply, loc[w].session_id)
    /\ sent' = <<loc[w].messages>>
    /\ Goto(w, "done")
    /\ UNCHANGED <<api_key, max_prompt, pypdf, sessions, now, uuid_next,
                   client_calls, accepted, http, results, loc, list_id>>

NextConcurrent ==
    \E w \in Workers :
        \/ Arrive(w)
        \/ CheckSession(w)
        \/ CreateSession(w)
        \/ LookUp(w)
        \/ AppendUser(w)
        \/ BuildContext(w)
        \/ CallClient(w)
        \/ AppendAssistant(w)
        \/ Respond(w)

SpecConcurrent == InitConcurrent /\ [][NextConcurrent]_vars

----------------------------------------------------------------------------
(* Properties of the chat handler, requests handled one at a time (Spec) *)

\* The request last handled is a chat request with a non-empty message
AcceptedChat(req) ==
    /\ req.route = "chat"
    /\ RawMessage(req.message).t = "str"
    /\ Strip(RawMessage(req.message).s) # <<>>

\* The request last handled is a chat request whose message is absent,
\* empty or whitespace-only
BlankChat(req) ==
    /\ req.route = "chat"
    /\ RawMessage(req.message).t = "str"
    /\ Strip(RawMessage(req.message).s) = <<>>

IsPrefixOf(a, b) == Len(a) <= Len(b) /\ SubSeq(b, 1, Len(a)) = a

\* C1: an accepted chat request is answered success:true with exactly the
\* fields response, source, confidence and session_id (no status tag of the
\* client); when the client returned no text the source is "fallback", the
\* confidence 0.45 and the text smart_fallback(message); when it returned a
\* text the source is "ai", the confidence 0.9 and the text is the client's.
C1_ReplyFollowsClientOutcome ==
    AcceptedChat(request) =>
        LET r == results[1]
            message == Strip(request.message.s)
        IN  /\ Len(results) = 1
            /\ response.status = 200
            /\ response.success = TRUE
            /\ DOMAIN response = {"status", "success", "response", "source",
                                  "confidence", "session_id"}
            /\ (r.none \/ r.text = <<>>) =>
                   /\ response.source = "fallback"
                   /\ response.confidence = "0.45"
                   /\ response.response = smart_fallback(message)
            /\ (~r.none /\ r.text # <<>>) =>
                   /\ response.source = "ai"
                   /\ response.confidence = "0.9"
                   /\ response.response = r.text

\* C1 witness: a request answered from the fallback after an HTTP 500 of the
\* completion endpoint
C1_Witness ==
    /\ AcceptedChat(request)
    /\ results = <<ResNone(<<"api_error_", "5", "0", "0">>)>>
    /\ response.source = "fallback"
    /\ response.response = PASSWORD_REPLY

\* C2: every session holds two Turns per accepted request, their roles
\* alternating user, assistant; and a step that handles an accepted request
\* appends to its session the user Turn with the message and then the
\* assistant Turn with the returned text, and changes no other Turn.
C2_TwoTurnsPerAcceptedRequest ==
    /\ [](\A sid \in DOMAIN sessions :
             /\ Len(sessions[sid]) = 2 * accepted[sid]
             /\ \A i \in 1..Len(sessions[sid]) :
                    sessions[sid][i].role =
                        IF i % 2 = 1 THEN "user" ELSE "assistant")
    /\ [][ /\ \A sid \in DOMAIN sessions :
                  /\ sid \in DOMAIN sessions'
                  /\ IsPrefixOf(sessions[sid], sessions'[sid])
           /\ AcceptedChat(request') =>
                  LET sid == response'.session_id
                      old == IF sid \in DOMAIN sessions
                             THEN sessions[sid] ELSE <<>>
                      new == sessions'[sid]
                  IN  /\ Len(new) = Len(old) + 2
                      /\ new[Len(old) + 1].role = "user"
                      /\ new[Len(old) + 1].text = Strip(request'.message.s)
                      /\ new[Len(old) + 2].role = "assistant"
                      /\ new[Len(old) + 2].text = response'.response
                      /\ \A k \in DOMAIN sessions' \ {sid} :
                             k \in DOMAIN sessions /\ sessions'[k] = sessions[k]
         ]_vars

\* C2 witness: a session after three accepted requests, one of them
\* answered from the fallback and one by the API
C2_Witness ==
    \E sid \in DOMAIN sessions :
        /\ accepted[sid] = 3
        /\ Len(sessions[sid]) = 6
        /\ sessions[sid][2].text = PASSWORD_REPLY
        /\ sessions[sid][4].text = <<"o", "k">>

\* C3: the message list built by the k-th accepted request of a session is
\* the system prompt, the last min(6, 2k-1) stored Turns in stored order
\* (ending with the current user message), and the current message once
\* more; it never has more than 8 entries, and the second request's list
\* holds the first request's two Turns.
C3_ContextWindow ==
    AcceptedChat(request) =>
        LET sid == response.session_id
            k == accepted[sid]
            message == Strip(request.message.s)
            stored == SubSeq(sessions[sid], 1, 2 * k - 1)
            w == Min2(6, 2 * k - 1)
            req == sent[1]
        IN  /\ Len(sent) = 1
            /\ Len(req) = w + 2
            /\ Len(req) <= 8
            /\ req[1] = Msg("system", SYSTEM_PROMPT)
            /\ \A i \in 1..w :
                   LET t == stored[Len(stored) - w + i]
                   IN  req[1 + i] = Msg(t.role, t.text)
            /\ req[w + 1] = Msg("user", message)
            /\ req[w + 2] = Msg("user", message)
            /\ k = 2 =>
                   /\ req[2] = Msg("user", sessions[sid][1].text)
                   /\ req[3] = Msg("assistant", sessions[sid][2].text)

\* C3 witness: a fourth request of a session, whose window leaves out the
\* first stored Turn
C3_Witness ==
    /\ AcceptedChat(request)
    /\ accepted[response.session_id] = 4
    /\ Len(sent[1]) = 8
    /\ sent[1][2].role = "assistant"

\* C4: a step that handles a chat request whose message is absent, empty or
\* whitespace-only answers 400 with success:false, leaves the session store
\* as it was (no session created, no Turn appended) and does not call the
\* completion client.
C4_BlankMessageRejected ==
    [][ BlankChat(request') =>
            /\ response'.status = 400
            /\ response'.success = FALSE
            /\ sessions' = sessions
            /\ client_calls' = client_calls
            /\ sent' = <<>>
            /\ results' = <<>>
      ]_vars

\* C4 witness: a whitespace-only message without a session_id was rejected
\* while the store holds a session, and the server has drawn no uuid for it
C4_Witness ==
    /\ BlankChat(request)
    /\ request.message = JStr(<<" ", "\t">>)
    /\ request.session_id = JAbsent
    /\ response = ChatEmpty
    /\ DOMAIN sessions = {<<"s1">>}
    /\ uuid_next = 0

----------------------------------------------------------------------------
(* Properties of the completion client (SpecClient) *)

\* The four places of a body all hold a string, null or nothing
AllTextual(d) ==
    /\ d.isdict /\ d.choices = "list" /\ d.c0dict /\ d.msg = "dict"
    /\ \A v \in {d.content, d.c0text, d.text, d.gen} : v.t # "num"

NonEmpty(v) == v.t = "str" /\ v.s # <<>>

\* C5: every result of call_openrouter_chat is (text, "ai") with a non-empty
\* text, or (None, tag) with tag missing_api_key, api_error_<status>,
\* no_content or exception.
C5_ResultIsTextOrTaggedNone ==
    request.route = "test" =>
        LET r == results[1]
        IN  \/ /\ ~r.none
               /\ r.text # <<>>
               /\ r.tag = <<"ai">>
            \/ /\ r.none
               /\ \/ r.tag \in { <<"missing_api_key">>, <<"no_content">>,
                                 <<"exception">> }
                  \/ /\ http # <<>>
                     /\ http[1].kind = "resp"
                     /\ http[1].status # 200
                     /\ r.tag = <<"api_error_">> \o Str(http[1].status)

\* C6: on a 200 dict body whose four places are addressable, the text
\* returned is that of the lowest-numbered place among message.content,
\* choices[0].text, text, generated_text that is present and non-empty.
C6_FirstNonEmptyPlaceWins ==
    (request.route = "test" /\ http # <<>> /\ http[1].kind = "resp"
        /\ http[1].status = 200 /\ AllTextual(http[1].data)) =>
        LET d == http[1].data
            places == <<d.content, d.c0text, d.text, d.gen>>
            r == results[1]
        IN  \A i \in 1..4 :
                (NonEmpty(places[i]) /\ \A j \in 1..(i - 1) : ~NonEmpty(places[j]))
                    => (~r.none /\ r.text = Strip(places[i].s))

----------------------------------------------------------------------------
(* Properties of the fallback responder (SpecFallback) *)

\* Some keyword of the bucket occurs in the message, letter case ignored
Mentions(words, message) ==
    \E k \in 1..Len(words) :
        \E i \in 0..(Len(message) - Len(words[k])) :
            \A j \in 1..Len(words[k]) :
                LowerChar(message[i + j]) = words[k][j]

\* C7: smart_fallback returns a non-empty string: the sentence of the first
\* of the buckets leave, password, software with a keyword in the message
\* (letter case ignored), and the catch-all sentence around the message as
\* typed when no bucket has one.
C7_FirstBucketWins ==
    request.route = "fallback" =>
        LET m == request.message
            reply == response.reply
            leave == Mentions(LEAVE_WORDS, m)
            password == Mentions(PASSWORD_WORDS, m)
            software == Mentions(SOFTWARE_WORDS, m)
        IN  /\ reply # <<>>
            /\ leave => reply = LEAVE_REPLY
            /\ (~leave /\ password) => reply = PASSWORD_REPLY
            /\ (~leave /\ ~password /\ software) => reply = SOFTWARE_REPLY
            /\ (~leave /\ ~password /\ ~software) =>
                   /\ Len(reply) = Len(m) + 2
                   /\ SubSeq(reply, 2, Len(m) + 1) = m
                   /\ reply[1] = "I understand you're asking about '"
            /\ (Mentions(<< <<"p","a","s","s","w","o","r","d">> >>, m) /\ ~leave)
                   => reply = PASSWORD_REPLY

\* C7 witness: a message with "PassWORD" in mixed case and no leave keyword
\* got the password sentence
C7_Witness ==
    /\ request.route = "fallback"
    /\ request.message = <<"x","'"," ","P","a","s","s","W","O","R","D">>
    /\ response.reply = PASSWORD_REPLY

----------------------------------------------------------------------------
(* Properties of the upload handler (SpecUpload, SpecKeywords) *)

UploadDone == request.route = "upload" /\ response.status = 200

\* C8: for an extracted text of length L and the ceiling C, the response has
\* char_count = L and truncated = (L > C); the summary prompt holds, after
\* its header, the first min(L, C) characters of the text, followed by the
\* truncation note when L > C and by nothing when L <= C; the keyword prompt
\* holds, after its header, the first min(3000, L, C) characters of the text.
C8_TruncationAtCeiling ==
    UploadDone =>
        LET text == request.file.text
            L == Len(text)
            C == max_prompt
            n == Min2(L, C)
            e == Min2(3000, n)
            summary_prompt == sent[1][2].content
            kw_prompt == sent[2][2].content
        IN  /\ response.char_count = L
            /\ response.truncated = (L > C)
            /\ SubSeq(summary_prompt, 1, 1) = SUMMARY_HEADER
            /\ SubSeq(summary_prompt, 2, n + 1) = SubSeq(text, 1, n)
            /\ L <= C => summary_prompt = SUMMARY_HEADER \o text
            /\ L > C =>
                   /\ Len(summary_prompt) > C + 1
                   /\ summary_prompt[C + 2] = "\n\n[Document truncated; original length "
            /\ kw_prompt = KW_HEADER \o SubSeq(text, 1, e)

\* C8 witness: a text longer than a ceiling that is itself longer than the
\* excerpt: truncated, and the excerpt is shorter than the text sent
C8_Witness ==
    /\ UploadDone
    /\ max_prompt = 3001
    /\ Len(request.file.text) = 3002
    /\ response.truncated
    /\ Len(sent[2][2].content) = 3001

\* The positions around the pieces of a completion: the separators and the
\* two ends
Bounds(T) == { i \in 1..Len(T) : IsSep(T[i]) } \cup { 0, Len(T) + 1 }

\* The piece that starts after position b, trimmed and lower-cased
PieceAfter(T, b) ==
    LET nb == CHOOSE q \in Bounds(T) :
                  q > b /\ \A x \in Bounds(T) : x > b => q <= x
    IN  Lower(Strip(SubSeq(T, b + 1, nb - 1)))

\* The starts of the non-empty pieces that no earlier piece equals
FirstOccurrences(T) ==
    LET starts == { b \in Bounds(T) \ {Len(T) + 1} : PieceAfter(T, b) # <<>> }
    IN  { b \in starts :
            \A c \in starts : c < b => PieceAfter(T, c) # PieceAfter(T, b) }

\* C9: the keywords are the trimmed, lower-cased, non-empty pieces of the
\* keyword completion between commas, semicolons and newlines, each once,
\* in the order of their first occurrence, the first 8 of them at most; the
\* list is empty when the keyword call returned no text, and the source
\* follows the summary call alone.
C9_KeywordsParsed ==
    UploadDone =>
        LET K == response.keywords
            rk == results[2]
            F == FirstOccurrences(rk.text)
        IN  /\ Len(K) <= 8
            /\ \A i \in 1..Len(K) :
                   /\ K[i] # <<>>
                   /\ K[i] = Lower(K[i])
                   /\ K[i] = Strip(K[i])
                   /\ \A j \in 1..Len(K) : K[i] = K[j] => i = j
            /\ (rk.none \/ rk.text = <<>>) => K = <<>>
            /\ ~rk.none =>
                   /\ Len(K) = Min2(8, Cardinality(F))
                   /\ \A r \in 1..Len(K) :
                          \E b \in F :
                              /\ Cardinality({ c \in F : c < b }) = r - 1
                              /\ K[r] = PieceAfter(rk.text, b)
            /\ response.source =
                   IF results[1].none \/ results[1].text = <<>>
                   THEN "fallback" ELSE "ai"

\* C9 witness: the completion "Alpha, Beta; Gamma\nAlpha" gave alpha, beta,
\* gamma
C9_Witness ==
    /\ UploadDone
    /\ results[2].text = SpecExample
    /\ response.keywords = << <<"a","l","p","h","a">>, <<"b","e","t","a">>,
                              <<"g","a","m","m","a">> >>

----------------------------------------------------------------------------
(* Properties of concurrent chat requests (SpecConcurrent) *)

AllDone == \A w \in Workers : pc[w] = "done"

HoldsTurn(history, role, text) ==
    \E i \in 1..Len(history) : history[i].role = role /\ history[i].text = text

\* C10: once all the requests for the session have completed, its history
\* holds two Turns per accepted request, among them each request's user
\* Turn and each request's assistant Turn.
C10_NoTurnLost ==
    AllDone =>
        /\ SharedSession \in DOMAIN sessions
        /\ Len(sessions[SharedSession]) = 2 * accepted[SharedSession]
        /\ \A w \in Workers :
               /\ HoldsTurn(sessions[SharedSession], "user", loc[w].message)
               /\ HoldsTurn(sessions[SharedSession], "assistant", loc[w].reply.text)

============================================================================
